---- MODULE Spec2Model ----
(***************************************************************************)
(* A model of app.py: the module bootstrap (load_dotenv, the credential    *)
(* check, the construction of the singleton `system`, the construction of  *)
(* `demo`, the launch under __main__) and the gateway function             *)
(* process_query(query, timeout), called by concurrent UI sessions.        *)
(*                                                                         *)
(* Text is modelled as a sequence of tokens; a token is one character or   *)
(* an atomic piece of literal text.  The two non-ASCII signs of the source *)
(* literals are written (!) and (x) here, as the module is ASCII.          *)
(* The collaboration engine (HistoryDataCollaborationSystem) is external:  *)
(* its constructor and its process_query are modelled by every outcome a   *)
(* Python callable can have (a returned value, a raised Exception, a       *)
(* raised BaseException that is no Exception, no response at all).         *)
(***************************************************************************)
EXTENDS Integers, Sequences, FiniteSets, TLC

VARIABLES
    environ,      \* os.environ's OPENAI_API_KEY: Absent, Empty ("") or Set
    dotenv,       \* the .env file's OPENAI_API_KEY: Absent, Empty or Set
    runAsMain,    \* __name__ == "__main__"
    boot,         \* the position of the module body
    system,       \* the module global `system`: NoSystem or an instance id
    constructed,  \* how many engine instances the constructor has made
    demo,         \* the module global `demo` exists
    serving,      \* demo.launch() is serving the UI
    pc,           \* per call: the position inside process_query
    query,        \* per call: the argument query
    timeout,      \* per call: the argument timeout
    received,     \* per call: what the engine's process_query was handed
    invoked,      \* per call: how often the engine's process_query was entered
    outcome,      \* per call: how the engine's process_query ended
    result        \* per call: what process_query gave its caller

vars == <<environ, dotenv, runAsMain, boot, system, constructed, demo, serving,
          pc, query, timeout, received, invoked, outcome, result>>

bootVars == <<environ, dotenv, runAsMain, boot, system, constructed, demo, serving>>

-----------------------------------------------------------------------------
(* Bounds of the model *)

MaxLen == 2

(* Program constants: the slider of the UI *)
SliderMin == 30
SliderMax == 300
SliderDefault == 120
SliderStep == 10

-----------------------------------------------------------------------------
(* Inputs *)

Calls == {"s1", "s2"}

Whitespace == {" ", "\t", "\n", "\r"}

Chars == {" ", "a"}

RECURSIVE SeqsUpTo(_)
SeqsUpTo(n) ==
    IF n = 0 THEN {<<>>}
    ELSE LET shorter == SeqsUpTo(n - 1)
         IN  shorter \cup {Append(s, ch) : s \in {t \in shorter : Len(t) = n - 1}, ch \in Chars}

Queries == SeqsUpTo(MaxLen)

(* The slider's default, and a value the slider cannot give *)
Timeouts == {SliderDefault, SliderMax + SliderStep}

Absent == "absent"
Empty == "empty"
Set == "set"
KeyValues == {Absent, Empty, Set}

NoSystem == 0

-----------------------------------------------------------------------------
(* The external engine's possible outcomes *)

ExceptionClasses == {"RuntimeError"}

BaseOnlyClasses == {"KeyboardInterrupt"}

Messages == {<<"boom">>}

EngineResults == {<<"Answer X">>, <<" ", "Answer X", "\n">>}

Returned(v) == [kind |-> "return", value |-> v]

Raised(cls, m) == [kind |-> "raise", cls |-> cls, msg |-> m]

None == [kind |-> "none"]

EngineOutcomes ==
    {Returned(v) : v \in EngineResults}
    \cup {Raised(cls, m) : cls \in ExceptionClasses \cup BaseOnlyClasses, m \in Messages}

-----------------------------------------------------------------------------
(* Pure functions of the gateway *)

RECURSIVE lstrip(_)
lstrip(s) ==
    IF s # <<>> /\ Head(s) \in Whitespace THEN lstrip(Tail(s)) ELSE s

RECURSIVE rstrip(_)
rstrip(s) ==
    IF s # <<>> /\ s[Len(s)] \in Whitespace THEN rstrip(SubSeq(s, 1, Len(s) - 1)) ELSE s

strip(s) == rstrip(lstrip(s))

IsBlankNoStrip(q) == q = <<>>

IsBlank(q) == q = <<>> \/ strip(q) = <<>>

WARNING == <<"(!) Please enter a question or task.">>

ERROR_PREFIX == <<"(x) Error: ">>

RETRY_HINT == <<"\n\nPlease try again or reduce the timeout value.">>

ErrorMessageNoHint(m) == ERROR_PREFIX \o m

ErrorMessage(m) == ERROR_PREFIX \o m \o RETRY_HINT

CaughtNothing(cls) == FALSE

Caught(cls) == cls \in ExceptionClasses

KeyMissingNever(v) == FALSE

KeyMissing(v) == v = Absent \/ v = Empty

Clamp(t) == IF t < SliderMin THEN SliderMin ELSE IF t > SliderMax THEN SliderMax ELSE t

EngineArgsClamped(q, t) == [query |-> q, timeout |-> Clamp(t)]

EngineArgsStripped(q, t) == [query |-> strip(q), timeout |-> t]

EngineArgs(q, t) == [query |-> q, timeout |-> t]

ReturnValueStripped(v) == strip(v)

ReturnValue(v) == v

-----------------------------------------------------------------------------
(* Initial state: the interpreter is about to run the module body *)

Init ==
    /\ environ \in KeyValues
    /\ dotenv \in KeyValues
    /\ runAsMain \in BOOLEAN
    /\ boot = "load_dotenv"
    /\ system = NoSystem
    /\ constructed = 0
    /\ demo = FALSE
    /\ serving = FALSE
    /\ pc = [c \in Calls |-> "idle"]
    /\ query = [c \in Calls |-> <<>>]
    /\ timeout = [c \in Calls |-> SliderDefault]
    /\ received = [c \in Calls |-> None]
    /\ invoked = [c \in Calls |-> 0]
    /\ outcome = [c \in Calls |-> None]
    /\ result = [c \in Calls |-> None]

callVars == <<pc, query, timeout, received, invoked, outcome, result>>

-----------------------------------------------------------------------------
(* The module body, lines 12-21, 46-115 and 118-134 *)

load_dotenv ==
    /\ boot = "load_dotenv"
    /\ environ' = IF environ = Absent THEN dotenv ELSE environ
    /\ boot' = "verify_key"
    /\ UNCHANGED <<dotenv, runAsMain, system, constructed, demo, serving>>
    /\ UNCHANGED callVars

VerifyKey ==
    /\ boot = "verify_key"
    /\ boot' = IF KeyMissing(environ) THEN "aborted" ELSE "init_system"
    /\ UNCHANGED <<environ, dotenv, runAsMain, system, constructed, demo, serving>>
    /\ UNCHANGED callVars

InitSystem ==
    /\ boot = "init_system"
    /\ constructed' = constructed + 1
    /\ system' = constructed + 1
    /\ boot' = "build_demo"
    /\ UNCHANGED <<environ, dotenv, runAsMain, demo, serving>>
    /\ UNCHANGED callVars

InitSystemRaises ==
    /\ boot = "init_system"
    /\ boot' = "aborted"
    /\ UNCHANGED <<environ, dotenv, runAsMain, system, constructed, demo, serving>>
    /\ UNCHANGED callVars

BuildDemo ==
    /\ boot = "build_demo"
    /\ demo' = TRUE
    /\ boot' = "main_guard"
    /\ UNCHANGED <<environ, dotenv, runAsMain, system, constructed, serving>>
    /\ UNCHANGED callVars

MainGuard ==
    /\ boot = "main_guard"
    /\ boot' = IF runAsMain THEN "launch" ELSE "imported"
    /\ UNCHANGED <<environ, dotenv, runAsMain, system, constructed, demo, serving>>
    /\ UNCHANGED callVars

Launch ==
    /\ boot = "launch"
    /\ serving' = TRUE
    /\ boot' = "serving"
    /\ UNCHANGED <<environ, dotenv, runAsMain, system, constructed, demo>>
    /\ UNCHANGED callVars

-----------------------------------------------------------------------------
(* process_query, lines 24-42: the callback fn of demo (line 47), which the   *)
(* served UI calls, one call per session at a time, sessions concurrently    *)

Call(c, q, t) ==
    /\ serving
    /\ pc[c] \in {"idle", "done"}
    /\ pc' = [pc EXCEPT ![c] = "validate"]
    /\ query' = [query EXCEPT ![c] = q]
    /\ timeout' = [timeout EXCEPT ![c] = t]
    /\ received' = [received EXCEPT ![c] = None]
    /\ invoked' = [invoked EXCEPT ![c] = 0]
    /\ outcome' = [outcome EXCEPT ![c] = None]
    /\ result' = [result EXCEPT ![c] = None]
    /\ UNCHANGED bootVars

ValidateFreshEngine(c) ==
    /\ pc[c] = "validate"
    /\ IF IsBlank(query[c])
       THEN /\ result' = [result EXCEPT ![c] = Returned(WARNING)]
            /\ pc' = [pc EXCEPT ![c] = "done"]
            /\ UNCHANGED <<received, invoked, constructed>>
       ELSE /\ constructed' = constructed + 1
            /\ received' = [received EXCEPT ![c] =
                               [instance |-> constructed + 1,
                                args |-> EngineArgs(query[c], timeout[c])]]
            /\ invoked' = [invoked EXCEPT ![c] = @ + 1]
            /\ pc' = [pc EXCEPT ![c] = "engine"]
            /\ UNCHANGED result
    /\ UNCHANGED <<query, timeout, outcome>>
    /\ UNCHANGED <<environ, dotenv, runAsMain, boot, system, demo, serving>>

Validate(c) ==
    /\ pc[c] = "validate"
    /\ IF IsBlank(query[c])
       THEN /\ result' = [result EXCEPT ![c] = Returned(WARNING)]
            /\ pc' = [pc EXCEPT ![c] = "done"]
            /\ UNCHANGED <<received, invoked>>
       ELSE /\ received' = [received EXCEPT ![c] =
                               [instance |-> system, args |-> EngineArgs(query[c], timeout[c])]]
            /\ invoked' = [invoked EXCEPT ![c] = @ + 1]
            /\ pc' = [pc EXCEPT ![c] = "engine"]
            /\ UNCHANGED result
    /\ UNCHANGED <<query, timeout, outcome>>
    /\ UNCHANGED bootVars

EngineRespond(c, o) ==
    /\ pc[c] = "engine"
    /\ outcome' = [outcome EXCEPT ![c] = o]
    /\ pc' = [pc EXCEPT ![c] = "responded"]
    /\ UNCHANGED <<query, timeout, received, invoked, result>>
    /\ UNCHANGED bootVars

ReturnResultShared(c) ==
    /\ pc[c] = "responded"
    /\ outcome[c].kind = "return"
    /\ \E d \in Calls :
        /\ outcome[d].kind = "return"
        /\ result' = [result EXCEPT ![c] = Returned(ReturnValue(outcome[d].value))]
    /\ pc' = [pc EXCEPT ![c] = "done"]
    /\ UNCHANGED <<query, timeout, received, invoked, outcome>>
    /\ UNCHANGED bootVars

ReturnResult(c) ==
    /\ pc[c] = "responded"
    /\ outcome[c].kind = "return"
    /\ result' = [result EXCEPT ![c] = Returned(ReturnValue(outcome[c].value))]
    /\ pc' = [pc EXCEPT ![c] = "done"]
    /\ UNCHANGED <<query, timeout, received, invoked, outcome>>
    /\ UNCHANGED bootVars

HandleExceptionRetry(c) ==
    /\ pc[c] = "responded"
    /\ outcome[c].kind = "raise"
    /\ Caught(outcome[c].cls)
    /\ IF invoked[c] < 2
       THEN /\ invoked' = [invoked EXCEPT ![c] = @ + 1]
            /\ outcome' = [outcome EXCEPT ![c] = None]
            /\ pc' = [pc EXCEPT ![c] = "engine"]
            /\ UNCHANGED result
       ELSE /\ result' = [result EXCEPT ![c] = Returned(ErrorMessage(outcome[c].msg))]
            /\ pc' = [pc EXCEPT ![c] = "done"]
            /\ UNCHANGED <<invoked, outcome>>
    /\ UNCHANGED <<query, timeout, received>>
    /\ UNCHANGED bootVars

HandleExceptionResets(c) ==
    /\ pc[c] = "responded"
    /\ outcome[c].kind = "raise"
    /\ Caught(outcome[c].cls)
    /\ result' = [result EXCEPT ![c] = Returned(ErrorMessage(outcome[c].msg))]
    /\ pc' = [pc EXCEPT ![c] = "done"]
    /\ system' = NoSystem
    /\ UNCHANGED <<query, timeout, received, invoked, outcome>>
    /\ UNCHANGED <<environ, dotenv, runAsMain, boot, constructed, demo, serving>>

HandleException(c) ==
    /\ pc[c] = "responded"
    /\ outcome[c].kind = "raise"
    /\ Caught(outcome[c].cls)
    /\ result' = [result EXCEPT ![c] = Returned(ErrorMessage(outcome[c].msg))]
    /\ pc' = [pc EXCEPT ![c] = "done"]
    /\ UNCHANGED <<query, timeout, received, invoked, outcome>>
    /\ UNCHANGED bootVars

Propagate(c) ==
    /\ pc[c] = "responded"
    /\ outcome[c].kind = "raise"
    /\ ~Caught(outcome[c].cls)
    /\ result' = [result EXCEPT ![c] = outcome[c]]
    /\ pc' = [pc EXCEPT ![c] = "done"]
    /\ UNCHANGED <<query, timeout, received, invoked, outcome>>
    /\ UNCHANGED bootVars

-----------------------------------------------------------------------------
(* Specifications *)

Next ==
    \/ load_dotenv
    \/ VerifyKey
    \/ InitSystem
    \/ InitSystemRaises
    \/ BuildDemo
    \/ MainGuard
    \/ Launch
    \/ \E c \in Calls, q \in Queries, t \in Timeouts : Call(c, q, t)
    \/ \E c \in Calls : Validate(c)
    \/ \E c \in Calls, o \in EngineOutcomes : EngineRespond(c, o)
    \/ \E c \in Calls : ReturnResult(c)
    \/ \E c \in Calls : HandleException(c)
    \/ \E c \in Calls : Propagate(c)

Spec == Init /\ [][Next]_vars

TypeOK ==
    /\ environ \in KeyValues /\ dotenv \in KeyValues /\ runAsMain \in BOOLEAN
    /\ boot \in {"load_dotenv", "verify_key", "init_system", "build_demo", "main_guard",
                 "launch", "serving", "imported", "aborted"}
    /\ system \in 0..1 /\ constructed \in 0..1
    /\ demo \in BOOLEAN /\ serving \in BOOLEAN
    /\ \A c \in Calls :
        /\ pc[c] \in {"idle", "validate", "engine", "responded", "done"}
        /\ query[c] \in Queries /\ timeout[c] \in Timeouts \cup {SliderDefault}
        /\ invoked[c] \in 0..1
        /\ outcome[c] \in EngineOutcomes \cup {None}

-----------------------------------------------------------------------------
(* Vocabulary of the properties, stated without the gateway's own operators *)

AllWhitespace(q) == \A i \in 1..Len(q) : q[i] \in Whitespace

Done(c) == pc[c] = "done"

StartsWith(s, p) == Len(s) >= Len(p) /\ SubSeq(s, 1, Len(p)) = p

Contains(s, p) == \E i \in 1..(Len(s) + 1) : StartsWith(SubSeq(s, i, Len(s)), p)

IsException(o) == o.kind = "raise" /\ o.cls \in ExceptionClasses

IsBaseOnly(o) == o.kind = "raise" /\ o.cls \in BaseOnlyClasses

NothingBuilt ==
    /\ system = NoSystem
    /\ constructed = 0
    /\ demo = FALSE
    /\ serving = FALSE
    /\ \A c \in Calls : pc[c] = "idle"

-----------------------------------------------------------------------------
(* C1: a call whose query is empty or only whitespace, whatever its timeout, *)
(* returns exactly the fixed warning, and the engine's process_query is      *)
(* never entered during that call.                                           *)
C1_BlankQueryWarns ==
    \A c \in Calls :
        (pc[c] # "idle" /\ AllWhitespace(query[c])) =>
            /\ invoked[c] = 0
            /\ received[c] = None
            /\ pc[c] \in {"validate", "done"}
            /\ Done(c) => result[c] = Returned(<<"(!) Please enter a question or task.">>)

C1_Witness ==
    \E c \in Calls :
        /\ Done(c)
        /\ query[c] = <<" ", " ">>
        /\ timeout[c] = SliderMax + SliderStep
        /\ result[c] = Returned(WARNING)

(* C2: for a query that is not blank and a timeout within the slider's range, *)
(* a call whose engine call returned a value returns that very value.         *)
C2_SuccessVerbatim ==
    \A c \in Calls :
        (/\ Done(c)
         /\ ~AllWhitespace(query[c])
         /\ timeout[c] \in SliderMin..SliderMax
         /\ outcome[c].kind = "return") =>
            result[c] = [kind |-> "return", value |-> outcome[c].value]

C2_Witness ==
    \E c \in Calls :
        /\ Done(c)
        /\ query[c] = <<" ", "a">>
        /\ timeout[c] = SliderDefault
        /\ outcome[c] = Returned(<<" ", "Answer X", "\n">>)
        /\ result[c] = Returned(<<" ", "Answer X", "\n">>)

(* C3 as stated: whenever the engine raised a fault with message m, the call  *)
(* returns (does not raise) a text that starts with the error prefix followed *)
(* by m and that contains the retry hint.                                     *)
C3_AnyFaultBecomesMessage ==
    \A c \in Calls :
        (Done(c) /\ outcome[c].kind = "raise") =>
            /\ result[c].kind = "return"
            /\ StartsWith(result[c].value, <<"(x) Error: ">> \o outcome[c].msg)
            /\ Contains(result[c].value,
                        <<"\n\nPlease try again or reduce the timeout value.">>)

(* C3 amended: whenever the engine raised a fault that is an instance of     *)
(* Exception, with message m, the call returns (does not raise) a text that   *)
(* starts with the error prefix followed by m and contains the retry hint.    *)
C3_ExceptionBecomesMessage ==
    \A c \in Calls :
        (Done(c) /\ IsException(outcome[c])) =>
            /\ result[c].kind = "return"
            /\ StartsWith(result[c].value, <<"(x) Error: ">> \o outcome[c].msg)
            /\ Contains(result[c].value,
                        <<"\n\nPlease try again or reduce the timeout value.">>)

C3_Witness ==
    \E c \in Calls :
        /\ Done(c)
        /\ outcome[c] = Raised("RuntimeError", <<"boom">>)
        /\ result[c].kind = "return"
        /\ StartsWith(result[c].value, <<"(x) Error: ", "boom">>)

(* C4 as stated: on every path and for every engine outcome, the call returns *)
(* a text to its caller and never raises.                                     *)
C4_NeverRaises ==
    \A c \in Calls : Done(c) => result[c].kind = "return"

(* C4 amended: the call returns a text to its caller on the warning path, on  *)
(* engine success and on every engine fault that is an instance of Exception; *)
(* a fault that is a BaseException but no Exception is the one outcome that   *)
(* propagates, unchanged.                                                     *)
C4_OnlyBaseExceptionRaises ==
    \A c \in Calls :
        Done(c) =>
            /\ ~IsBaseOnly(outcome[c]) => result[c].kind = "return"
            /\ IsBaseOnly(outcome[c]) => result[c] = outcome[c]

C4_Witness ==
    /\ \E c \in Calls : Done(c) /\ IsException(outcome[c]) /\ result[c].kind = "return"
    /\ \E c \in Calls : Done(c) /\ IsBaseOnly(outcome[c]) /\ result[c].kind = "raise"

(* C5: when the credential is absent (from os.environ and from the .env file  *)
(* that load_dotenv merges into it), the start aborts before the engine is    *)
(* constructed and before the UI is built or served; the engine, the UI and   *)
(* every call exist only in a run whose os.environ holds a non-empty key.     *)
C5_NoCredentialNoStart ==
    /\ (environ = Absent /\ dotenv = Absent) =>
            NothingBuilt /\ boot \in {"load_dotenv", "verify_key", "aborted"}
    /\ (boot \notin {"load_dotenv", "verify_key"} /\ environ # Set) =>
            NothingBuilt /\ boot = "aborted"

C5_Witness ==
    /\ environ = Absent
    /\ dotenv = Absent
    /\ boot = "aborted"
    /\ NothingBuilt

(* C6: at most one engine instance is ever constructed, a started process     *)
(* holds exactly that one in `system` whatever calls have been made, and      *)
(* every delegating call went to it.                                          *)
C6_Singleton ==
    /\ constructed <= 1
    /\ boot \in {"build_demo", "main_guard", "launch", "serving", "imported"} =>
            system = 1 /\ constructed = 1
    /\ \A c \in Calls : invoked[c] > 0 => received[c].instance = system

C6_Witness ==
    /\ system = 1
    /\ constructed = 1
    /\ \E c \in Calls : Done(c) /\ result[c] = Returned(WARNING)
    /\ \E c \in Calls : Done(c) /\ IsException(outcome[c]) /\ received[c].instance = 1

(* C7: two calls with the same query and the same timeout, to which the       *)
(* engine answered the same (as a deterministic engine does), gave the same   *)
(* output, whatever happened between them.                                    *)
C7_SameCallSameOutput ==
    \A c, d \in Calls :
        (/\ Done(c) /\ Done(d)
         /\ query[c] = query[d]
         /\ timeout[c] = timeout[d]
         /\ outcome[c] = outcome[d]) =>
            result[c] = result[d]

C7_Witness ==
    \E c, d \in Calls :
        /\ c # d
        /\ Done(c) /\ Done(d)
        /\ query[c] = <<"a">> /\ query[d] = <<"a">>
        /\ timeout[c] = timeout[d]
        /\ outcome[c].kind = "return"
        /\ outcome[c] = outcome[d]
        /\ result[c] = result[d]

(* C8: whenever a call has delegated, the engine was handed exactly the       *)
(* caller's query (untrimmed) and exactly the caller's timeout, also outside  *)
(* the slider's range.                                                        *)
C8_ArgumentsPassThrough ==
    \A c \in Calls :
        invoked[c] > 0 =>
            /\ received[c].args.query = query[c]
            /\ received[c].args.timeout = timeout[c]

C8_Witness ==
    \E c \in Calls :
        /\ invoked[c] = 1
        /\ query[c] = <<" ", "a">>
        /\ timeout[c] = SliderMax + SliderStep
        /\ timeout[c] \notin SliderMin..SliderMax
        /\ received[c].args = [query |-> <<" ", "a">>, timeout |-> SliderMax + SliderStep]

(* What a call gives its caller, as a function of its own query and of the    *)
(* engine's answer to its own invocation only                                 *)
OwnOutput(q, o) ==
    IF AllWhitespace(q) THEN Returned(<<"(!) Please enter a question or task.">>)
    ELSE IF o.kind = "return" THEN o
    ELSE IF IsException(o)
         THEN Returned(<<"(x) Error: ">> \o o.msg
                       \o <<"\n\nPlease try again or reduce the timeout value.">>)
         ELSE o

C9_Step ==
    \A c \in Calls :
        pc'[c] # pc[c] =>
            /\ system' = system /\ demo' = demo /\ constructed' = constructed
            /\ \A d \in Calls \ {c} :
                /\ pc'[d] = pc[d] /\ result'[d] = result[d] /\ outcome'[d] = outcome[d]
                /\ query'[d] = query[d] /\ timeout'[d] = timeout[d]
                /\ received'[d] = received[d]
            /\ pc'[c] = "done" => result'[c] = OwnOutput(query[c], outcome[c])

(* C9: under every interleaving, a step of a call leaves `system`, `demo` and *)
(* every other call's state as they were, and the value a call ends with is   *)
(* fixed by its own query and by the engine's answer to its own invocation.   *)
C9_NoInterference == [][C9_Step]_vars

C9_Witness ==
    \E c, d \in Calls :
        /\ c # d
        /\ Done(c) /\ outcome[c] = Returned(<<" ", "Answer X", "\n">>)
        /\ result[c] = outcome[c]
        /\ pc[d] = "responded" /\ outcome[d].kind = "raise"
        /\ query[c] # query[d]

(* C10, the states: the engine is entered at most once per call; a call has  *)
(* no result while its engine call is running or unhandled; a call that has   *)
(* ended with a query that is not blank entered the engine once and got its   *)
(* answer; and a call whose engine call has ended is never blocked.           *)
C10_OnceAndAfter ==
    \A c \in Calls :
        /\ invoked[c] <= 1
        /\ (pc[c] \in {"engine", "responded"}) => (invoked[c] = 1 /\ result[c] = None)
        /\ (pc[c] = "engine") => outcome[c] = None
        /\ (Done(c) /\ ~AllWhitespace(query[c])) => (invoked[c] = 1 /\ outcome[c] # None)
        /\ (pc[c] = "responded") =>
                ENABLED (ReturnResult(c) \/ HandleException(c) \/ Propagate(c))

(* C10, the steps: a call leaves the engine only by the engine's answer, and  *)
(* the step after the engine's answer ends the call (no second invocation).   *)
C10_Step ==
    \A c \in Calls :
        /\ (pc[c] = "engine" /\ pc'[c] # "engine") =>
                (pc'[c] = "responded" /\ outcome'[c] \in EngineOutcomes)
        /\ (pc[c] = "responded" /\ pc'[c] # "responded") =>
                (pc'[c] = "done" /\ result'[c] # None /\ invoked'[c] = 1)

(* C10: a call whose query is not blank enters the engine exactly once, also  *)
(* after a fault; it ends only after the engine call has returned or raised,  *)
(* it is never cancelled while the engine call runs, and once the engine call *)
(* has ended its next step ends it.                                           *)
C10_EngineOnceThenReturn == []C10_OnceAndAfter /\ [][C10_Step]_vars

C10_Witness ==
    \E c \in Calls :
        /\ Done(c)
        /\ ~AllWhitespace(query[c])
        /\ IsException(outcome[c])
        /\ invoked[c] = 1

====
